---- MODULE Spec2Model ----
(***************************************************************************)
(* Model of the provisioning orchestrator of src/server.js: the class      *)
(* GraphApiService (resolver, application provisioner, enterprise object   *)
(* provisioner, permission wiring, admin consent) and the handler of       *)
(* POST /api/provision.  The remote directory (Microsoft Graph) is part of *)
(* the state; every remote call may fail, which the handler's try/catch    *)
(* blocks turn into errors, warnings or silence exactly as in the source.  *)
(***************************************************************************)
EXTENDS Integers, Sequences, FiniteSets, TLC

(* ------------------------------ bounds -------------------------------- *)
\* number of provisioning requests served one after the other
MaxRuns == 2
\* number of remote calls that fail over a whole behaviour
MaxFailures == 1
\* number of role-type Graph permissions of MAHI_CONNECTOR_APP (8 in the source)
NumGraphRoles == 2
\* longest requiredResourceAccess list handed to grantAdminConsent on its own
MaxResources == 2
\* most applications in the tenant a lookup is answered from
MaxApps == 3

(* --------------------------- program constants ------------------------ *)
\* resourceAppId of Microsoft Graph, "00000003-0000-0000-c000-000000000000"
GraphAppId == 3
\* id of the delegated permission User.Read, "e1fe6dd8-..."
UserReadId == 1
\* servicePrincipalId of an outcome whose principal was not found: "Not found"
NotFound == 0

AppUids == <<"MAHI_CONNECTOR_APP", "MAHI_API_ACCESS", "MAHI_TEAMS_APP">>
EntUids == <<"APP_PROXY_SAML_APP", "CHAT_PROXY_APP">>

SecretMinted == "secretText returned by addPassword"
SecretFailedExisting == "Unable to generate new secret - use existing or create manually"
SecretSkippedExisting == "Secret generation skipped - use existing or create manually"
SecretFailedNew == "Secret generation failed - create manually if needed"
SecretSkippedNew == "Secret generation skipped - create manually if needed"
Placeholders ==
  {SecretFailedExisting, SecretSkippedExisting, SecretFailedNew, SecretSkippedNew}

(* ------------------------------ helpers ------------------------------- *)
\* Array.prototype.find as an index: the first i with P(s[i]), or 0
FirstIdx(s, P(_)) ==
  IF \E i \in 1..Len(s) : P(s[i])
  THEN CHOOSE i \in 1..Len(s) : P(s[i]) /\ \A j \in 1..(i - 1) : ~P(s[j])
  ELSE 0

RECURSIVE SubsUpTo(_, _)
\* the subsets of P with at most k elements
SubsUpTo(P, k) ==
  IF k <= 0 THEN {{}}
  ELSE LET S == SubsUpTo(P, k - 1) IN S \cup {s \cup {a} : s \in S, a \in P}

\* F, the remote calls that fail in one step, is a set of <<op, r, p>>: the
\* request, and for the calls of grantAdminConsent the position of the resource
\* and of the permission they are about (0 elsewhere)
Fails(F, op) == <<op, 0, 0>> \in F

\* a remote call: op is the request, obj the object it addresses, ok its outcome
Call(op, obj, ok) == [op |-> op, obj |-> obj, ok |-> ok]
Failed(calls) == Cardinality({i \in 1..Len(calls) : ~calls[i].ok})

NoWeb == [set |-> FALSE, redirectUris |-> <<>>, enableIdTokenIssuance |-> FALSE]
NoSpa == [set |-> FALSE, redirectUris |-> <<>>]

(* --------------------------- remote directory ------------------------- *)
\* application ids differ from object ids
AppIdOf(objectId) == 100 + objectId
\* generateGuid: a fresh identifier, never equal to an earlier one
GenerateGuid(d, k) == 1000 + d.guid + k

\* the tenant before the first request: no application, the principal of
\* Microsoft Graph only
EmptyDirectory ==
  [apps |-> <<>>,
   sps |-> <<[appId |-> GraphAppId, tags |-> <<>>, sso |-> "none"]>>,
   assigned |-> {},
   guid |-> 0]

\* GET /applications?$filter=displayName eq name : the object id of the first
\* result, 0 for an empty result
AppByName(d, name) == FirstIdx(d.apps, LAMBDA a : a.name = name)
\* GET /applications?$filter=appId eq appId
AppByAppId(d, appId) == FirstIdx(d.apps, LAMBDA a : a.appId = appId)
\* GET /servicePrincipals?$filter=appId eq appId
SpByAppId(d, appId) == FirstIdx(d.sps, LAMBDA s : s.appId = appId)

(* ------------------------------ resolver ------------------------------ *)
\* checkExistingApplication: the lookup's failure is caught, warned about on
\* the console and answered null (0 here); F is the set of remote calls that
\* fail
CheckExistingApplication(d, name, F) ==
  IF Fails(F, "findApp")
  THEN [id |-> 0, calls |-> <<Call("findApp", 0, FALSE)>>, warned |-> TRUE]
  ELSE [id |-> AppByName(d, name), calls |-> <<Call("findApp", 0, TRUE)>>,
        warned |-> FALSE]

\* checkExistingServicePrincipal
CheckExistingServicePrincipal(d, appId, F) ==
  IF Fails(F, "findSp")
  THEN [id |-> 0, calls |-> <<Call("findSp", 0, FALSE)>>]
  ELSE [id |-> SpByAppId(d, appId), calls |-> <<Call("findSp", 0, TRUE)>>]

(* --------------------------- permissions ------------------------------ *)
Role(k) == [id |-> 10 + k, type |-> "Role"]
UserRead == [id |-> UserReadId, type |-> "Scope"]

\* getAppPermissionsByUniqueId
GetAppPermissionsByUniqueId(uid) ==
  IF uid = "MAHI_CONNECTOR_APP"
  THEN <<[resourceAppId |-> GraphAppId,
          resourceAccess |-> [k \in 1..NumGraphRoles |-> Role(k)] \o <<UserRead>>]>>
  ELSE <<[resourceAppId |-> GraphAppId, resourceAccess |-> <<UserRead>>]>>

(* --------------------------- admin consent ---------------------------- *)
\* getServicePrincipalIdByAppId: the principal's id; 0 stands for the throw
\* (the request failed, or no principal has this appId)
GetServicePrincipalIdByAppId(d, appId, r, F) ==
  IF <<"findResSp", r, 0>> \in F THEN 0 ELSE SpByAppId(d, appId)

\* the events of one grantAdminConsent call, in order
Ev(ev, r, p, res) == [ev |-> ev, r |-> r, p |-> p, res |-> res]

\* POST /servicePrincipals/{id}/appRoleAssignments as the directory answers
\* it: "error" for a failed request, "conflict" (a message that includes
\* "already exists") when the principal has the assignment, "ok" otherwise
AssignOutcome(d, key, r, p, F) ==
  IF <<"assign", r, p>> \in F THEN "error"
  ELSE IF key \in d.assigned THEN "conflict"
  ELSE "ok"

\* the catch of one role-assignment attempt (lines 615-634): consentGranted
\* after an attempt that was rejected with `outcome`
CatchAssign(granted, outcome) ==
  IF outcome = "conflict" THEN TRUE ELSE granted

RECURSIVE ConsentPermissions(_, _, _, _, _, _, _)
\* the inner loop of grantAdminConsent over resource.resourceAccess, from
\* position p on; st = [d, granted, log, calls]
ConsentPermissions(st, spId, resSp, perms, r, p, F) ==
  IF p > Len(perms) THEN st
  ELSE IF perms[p].type # "Role"
  THEN ConsentPermissions(st, spId, resSp, perms, r, p + 1, F)
  ELSE
    LET key == <<spId, resSp, perms[p].id>>
        outcome == AssignOutcome(st.d, key, r, p, F)
        st1 ==
          IF outcome = "ok"
          THEN [d |-> [st.d EXCEPT !.assigned = @ \cup {key}],
                granted |-> TRUE,
                log |-> st.log \o <<Ev("assign", r, p, outcome), Ev("delay", r, p, "500")>>,
                calls |-> Append(st.calls, Call("assign", spId, TRUE))]
          ELSE [d |-> st.d,
                granted |-> CatchAssign(st.granted, outcome),
                log |-> Append(st.log, Ev("assign", r, p, outcome)),
                calls |-> Append(st.calls, Call("assign", spId, outcome # "error"))]
    IN ConsentPermissions(st1, spId, resSp, perms, r, p + 1, F)

\* the outer catch of grantAdminConsent (lines 650-653): what the call
\* returns when getServicePrincipalIdByAppId threw with consentGranted = granted
CatchConsent(granted) == FALSE

RECURSIVE ConsentResources(_, _, _, _, _)
\* the outer loop of grantAdminConsent over requiredResourceAccess, from
\* position r on, and the return
ConsentResources(st, spId, rra, r, F) ==
  IF r > Len(rra) THEN [st EXCEPT !.log = Append(@, Ev("return", 0, 0, "normal"))]
  ELSE
    LET resSp == GetServicePrincipalIdByAppId(st.d, rra[r].resourceAppId, r, F)
        looked == [st EXCEPT
                     !.log = Append(@, Ev("resolve", r, 0, IF resSp = 0 THEN "throw" ELSE "ok")),
                     !.calls = Append(@, Call("findResSp", 0,
                                              ~(<<"findResSp", r, 0>> \in F)))]
    IN IF resSp = 0
       THEN [looked EXCEPT !.granted = CatchConsent(st.granted),
                           !.log = Append(@, Ev("return", 0, 0, "caught"))]
       ELSE ConsentResources(
              ConsentPermissions(looked, spId, resSp, rra[r].resourceAccess, r, 1, F),
              spId, rra, r + 1, F)

\* grantAdminConsent(servicePrincipalId, requiredResourceAccess):
\* [d: the directory after it, granted: its return value, log, calls]
GrantAdminConsent(d, spId, rra, F) ==
  ConsentResources(
    [d |-> d, granted |-> FALSE, log |-> <<Ev("wait", 0, 0, "2000")>>, calls |-> <<>>],
    spId, rra, 1, F)

(* ----------------------- application provisioner --------------------- *)
\* createClientSecret: POST /applications/{id}/addPassword; it throws when
\* the request fails
CreateClientSecret(d, objectId, F) ==
  IF Fails(F, "addPassword")
  THEN [d |-> d, threw |-> TRUE, calls |-> <<Call("addPassword", objectId, FALSE)>>]
  ELSE [d |-> [d EXCEPT !.apps[objectId].passwords = @ + 1], threw |-> FALSE,
        calls |-> <<Call("addPassword", objectId, TRUE)>>]

\* lines 368-387: the credential of an adopted application
\* [d, threw: the step fails, secret: the outcome's clientSecret, calls]
SecretForExisting(d, objectId, generateSecret, F) ==
  IF generateSecret # FALSE
  THEN LET c == CreateClientSecret(d, objectId, F)
       IN [d |-> c.d, threw |-> FALSE, calls |-> c.calls,
           secret |-> IF c.threw THEN SecretFailedExisting ELSE SecretMinted]
  ELSE [d |-> d, threw |-> FALSE, calls |-> <<>>, secret |-> SecretSkippedExisting]

\* lines 461-476 with a catch that rethrows
SecretForNewThrowing(d, objectId, generateSecret, F) ==
  IF generateSecret # FALSE
  THEN LET c == CreateClientSecret(d, objectId, F)
       IN [d |-> c.d, threw |-> c.threw, calls |-> c.calls, secret |-> SecretMinted]
  ELSE [d |-> d, threw |-> FALSE, calls |-> <<>>, secret |-> SecretSkippedNew]

\* lines 461-476: the credential of a new application
SecretForNew(d, objectId, generateSecret, F) ==
  IF generateSecret # FALSE
  THEN LET c == CreateClientSecret(d, objectId, F)
       IN [d |-> c.d, threw |-> FALSE, calls |-> c.calls,
           secret |-> IF c.threw THEN SecretFailedNew ELSE SecretMinted]
  ELSE [d |-> d, threw |-> FALSE, calls |-> <<>>, secret |-> SecretSkippedNew]

\* the value of a field the returned object does not have
Undefined == "undefined"
\* api://{appId}/api
ApiUri(appId) == "api://" \o ToString(appId) \o "/api"

\* what createAppRegistration and createEnterpriseApplication hand back when
\* they throw
Thrown(d, calls) == [d |-> d, threw |-> TRUE, calls |-> calls, out |-> Undefined,
                     clog |-> <<>>]

\* lines 358-401 followed by a setApplicationIdUri on the adopted application
AdoptAndSetUri(d, config, existing, F) ==
  LET app == d.apps[existing]
      sp == CheckExistingServicePrincipal(d, app.appId, F)
      mint == SecretForExisting(d, existing, config.generateSecret, F)
  IN [d |-> [mint.d EXCEPT !.apps[existing].identifierUris = <<ApiUri(app.appId)>>],
      threw |-> FALSE,
      calls |-> sp.calls \o mint.calls \o <<Call("patchUri", existing, TRUE)>>,
      clog |-> <<>>,
      out |-> [appId |-> app.appId, objectId |-> existing, displayName |-> app.name,
               clientSecret |-> mint.secret,
               servicePrincipalId |-> IF sp.id # 0 THEN sp.id ELSE NotFound,
               redirectUris |-> config.redirectUris, type |-> config.type,
               uniqueId |-> config.uniqueId, isExisting |-> TRUE,
               adminConsentGranted |-> FALSE, applicationIdUri |-> Undefined]]

\* lines 358-401: the application exists; `existing` is its object id
AdoptAppRegistration(d, config, existing, F) ==
  LET app == d.apps[existing]
      sp == CheckExistingServicePrincipal(d, app.appId, F)
      mint == SecretForExisting(d, existing, config.generateSecret, F)
  IN IF mint.threw THEN Thrown(mint.d, sp.calls \o mint.calls)
     ELSE [d |-> mint.d, threw |-> FALSE, calls |-> sp.calls \o mint.calls,
           clog |-> <<>>,
           out |-> [appId |-> app.appId,
                    objectId |-> existing,
                    displayName |-> app.name,
                    clientSecret |-> mint.secret,
                    servicePrincipalId |-> IF sp.id # 0 THEN sp.id ELSE NotFound,
                    redirectUris |-> config.redirectUris,
                    type |-> config.type,
                    uniqueId |-> config.uniqueId,
                    isExisting |-> TRUE,
                    adminConsentGranted |-> FALSE,
                    applicationIdUri |-> Undefined]]

\* lines 404-440: the body of POST /applications for a new app registration,
\* as the directory stores it under object id `objectId`
ApplicationData(d, config, objectId) ==
  [name |-> config.name,
   appId |-> AppIdOf(objectId),
   signInAudience |-> "AzureADMyOrg",
   scopes |-> [k \in 1..Len(config.scopes) |->
                 [value |-> config.scopes[k], id |-> GenerateGuid(d, k)]],
   rra |-> GetAppPermissionsByUniqueId(config.uniqueId),
   identifierUris |-> <<>>,
   web |-> IF config.type = "web"
           THEN [set |-> TRUE, redirectUris |-> config.redirectUris,
                 enableIdTokenIssuance |-> TRUE]
           ELSE NoWeb,
   spa |-> IF config.type = "spa"
           THEN [set |-> TRUE, redirectUris |-> config.redirectUris]
           ELSE NoSpa,
   passwords |-> 0]

\* lines 403-524: no application of this name was found
CreateNewAppRegistration(d, config, F) ==
  IF Fails(F, "createApp") THEN Thrown(d, <<Call("createApp", 0, FALSE)>>)
  ELSE
    LET objectId == Len(d.apps) + 1
        appId == AppIdOf(objectId)
        d1 == [d EXCEPT !.apps = Append(@, ApplicationData(d, config, objectId)),
                        !.guid = @ + Len(config.scopes)]
        c1 == <<Call("createApp", objectId, TRUE)>>
        \* setApplicationIdUri (lines 544-567) rethrows
        isApi == config.uniqueId = "MAHI_API_ACCESS"
        uriFails == isApi /\ Fails(F, "patchUri")
        d2 == IF isApi /\ ~uriFails
              THEN [d1 EXCEPT !.apps[objectId].identifierUris = <<ApiUri(appId)>>]
              ELSE d1
        c2 == IF isApi THEN Append(c1, Call("patchUri", objectId, ~uriFails)) ELSE c1
        mint == SecretForNew(d2, objectId, config.generateSecret, F)
        c3 == c2 \o mint.calls
        spFails == Fails(F, "createSp")
        spId == Len(mint.d.sps) + 1
        d4 == [mint.d EXCEPT !.sps = Append(@, [appId |-> appId, tags |-> <<>>,
                                                 sso |-> "none"])]
        c4 == Append(c3, Call("createSp", objectId, ~spFails))
        rra == GetAppPermissionsByUniqueId(config.uniqueId)
        consent == IF config.grantAdminConsent
                   THEN GrantAdminConsent(d4, spId, rra, F)
                   ELSE [d |-> d4, granted |-> FALSE, log |-> <<>>, calls |-> <<>>]
    IN IF uriFails THEN Thrown(d2, c2)
       ELSE IF mint.threw THEN Thrown(mint.d, c3)
       ELSE IF spFails THEN Thrown(mint.d, c4)
       ELSE [d |-> consent.d, threw |-> FALSE, calls |-> c4 \o consent.calls,
             clog |-> consent.log,
             out |-> [appId |-> appId,
                      objectId |-> objectId,
                      displayName |-> config.name,
                      clientSecret |-> mint.secret,
                      servicePrincipalId |-> spId,
                      redirectUris |-> config.redirectUris,
                      type |-> config.type,
                      uniqueId |-> config.uniqueId,
                      isExisting |-> FALSE,
                      adminConsentGranted |-> consent.granted,
                      applicationIdUri |-> IF isApi THEN ApiUri(appId)
                                           ELSE "null"]]

\* createAppRegistration(config): [d, threw, out, calls, clog]
CreateAppRegistration(d, config, F) ==
  LET look == CheckExistingApplication(d, config.name, F)
      r == IF look.id # 0
           THEN AdoptAppRegistration(d, config, look.id, F)
           ELSE CreateNewAppRegistration(d, config, F)
  IN [r EXCEPT !.calls = look.calls \o @]

(* --------------------- enterprise object provisioner ------------------ *)
\* lines 729-752: the enterprise application exists
AdoptEnterpriseApplication(d, config, existing, F) ==
  LET app == d.apps[existing]
      sp == CheckExistingServicePrincipal(d, app.appId, F)
  IN [d |-> d, threw |-> FALSE, calls |-> sp.calls, clog |-> <<>>,
      out |-> [appId |-> app.appId,
               objectId |-> existing,
               displayName |-> app.name,
               servicePrincipalId |-> IF sp.id # 0 THEN sp.id ELSE NotFound,
               type |-> config.type,
               uniqueId |-> config.uniqueId,
               ssoMode |-> IF config.type = "saml" THEN "saml" ELSE "none",
               isExisting |-> TRUE]]

\* lines 754-766: the body of POST /applications for an enterprise application
EnterpriseApplicationData(config, objectId) ==
  LET saml == config.type = "saml" /\ config.hasSamlSettings
  IN [name |-> config.name,
      appId |-> AppIdOf(objectId),
      signInAudience |-> "AzureADMyOrg",
      scopes |-> <<>>,
      rra |-> <<>>,
      identifierUris |-> IF saml THEN <<config.samlIdentifier>> ELSE <<>>,
      web |-> IF saml
              THEN [set |-> TRUE, redirectUris |-> <<config.samlReplyUrl>>,
                    enableIdTokenIssuance |-> FALSE]
              ELSE NoWeb,
      spa |-> NoSpa,
      passwords |-> 0]

\* lines 781-790 without the test of config.type
EnterprisePrincipalDataAlwaysSaml(config, appId) ==
  [appId |-> appId,
   tags |-> <<"WindowsAzureActiveDirectoryIntegratedApp">>,
   sso |-> "saml"]

\* lines 781-790: the body of POST /servicePrincipals for an enterprise application
EnterprisePrincipalData(config, appId) ==
  [appId |-> appId,
   tags |-> <<"WindowsAzureActiveDirectoryIntegratedApp">>,
   sso |-> IF config.type = "saml" THEN "saml" ELSE "none"]

\* the two requests with the principal asked for first
EnterpriseCallsPrincipalFirst(objectId, spFails) ==
  <<Call("createSp", objectId, ~spFails), Call("createApp", objectId, TRUE)>>

\* lines 768-801: the requests of the created branch once POST /applications
\* has succeeded, in the order they are awaited
EnterpriseCalls(objectId, spFails) ==
  <<Call("createApp", objectId, TRUE), Call("createSp", objectId, ~spFails)>>

\* lines 754-816: no application of this name was found
CreateNewEnterpriseApplication(d, config, F) ==
  IF Fails(F, "createApp") THEN Thrown(d, <<Call("createApp", 0, FALSE)>>)
  ELSE
    LET objectId == Len(d.apps) + 1
        appId == AppIdOf(objectId)
        d1 == [d EXCEPT !.apps = Append(@, EnterpriseApplicationData(config, objectId))]
        spFails == Fails(F, "createSp")
        spId == Len(d1.sps) + 1
        d2 == [d1 EXCEPT !.sps = Append(@, EnterprisePrincipalData(config, appId))]
        c2 == EnterpriseCalls(objectId, spFails)
    IN IF spFails THEN Thrown(d1, c2)
       ELSE [d |-> d2, threw |-> FALSE, calls |-> c2, clog |-> <<>>,
             out |-> [appId |-> appId,
                      objectId |-> objectId,
                      displayName |-> config.name,
                      servicePrincipalId |-> spId,
                      type |-> config.type,
                      uniqueId |-> config.uniqueId,
                      ssoMode |-> IF config.type = "saml" THEN "saml" ELSE "none",
                      isExisting |-> FALSE]]

\* createEnterpriseApplication(config): [d, threw, out, calls, clog]
CreateEnterpriseApplication(d, config, F) ==
  LET look == CheckExistingApplication(d, config.name, F)
      r == IF look.id # 0
           THEN AdoptEnterpriseApplication(d, config, look.id, F)
           ELSE CreateNewEnterpriseApplication(d, config, F)
  IN [r EXCEPT !.calls = look.calls \o @]

(* --------------------------- permission wiring ------------------------ *)
\* lines 1067-1099 without the check for the existing scope
WithScopeUnchecked(cur, targetAppId, scopeId) ==
  LET e == FirstIdx(cur, LAMBDA res : res.resourceAppId = targetAppId)
  IN IF e # 0
     THEN [cur EXCEPT ![e].resourceAccess = Append(@, [id |-> scopeId, type |-> "Scope"])]
     ELSE Append(cur, [resourceAppId |-> targetAppId,
                       resourceAccess |-> <<[id |-> scopeId, type |-> "Scope"]>>])

\* lines 1067-1099 with the list built anew around the requested scope
WithScopeReplacing(cur, targetAppId, scopeId) ==
  <<[resourceAppId |-> targetAppId,
     resourceAccess |-> <<[id |-> scopeId, type |-> "Scope"]>>]>>

\* lines 1067-1099: the declared-permission list after the scope scopeId of
\* targetAppId is added to `cur`; `cur` itself when the scope is there already
WithScope(cur, targetAppId, scopeId) ==
  LET e == FirstIdx(cur, LAMBDA res : res.resourceAppId = targetAppId)
  IN IF e # 0
     THEN IF FirstIdx(cur[e].resourceAccess, LAMBDA a : a.id = scopeId) # 0
          THEN cur
          ELSE [cur EXCEPT ![e].resourceAccess =
                  Append(@, [id |-> scopeId, type |-> "Scope"])]
     ELSE Append(cur, [resourceAppId |-> targetAppId,
                       resourceAccess |-> <<[id |-> scopeId, type |-> "Scope"]>>])

\* addApplicationPermission without the returns of lines 1032-1050: a target
\* or scope that is not found is requested with an undefined id (0)
AddApplicationPermissionAnyway(d, src, targetAppId, scopeValue, F) ==
  LET getT == Call("getTarget", 0, ~Fails(F, "getTarget"))
      t == AppByAppId(d, targetAppId)
      sc == IF t = 0 THEN 0
            ELSE FirstIdx(d.apps[t].scopes, LAMBDA x : x.value = scopeValue)
      getS == Call("getSource", src, ~Fails(F, "getSource"))
      cur == d.apps[src].rra
      new == WithScope(cur, targetAppId, IF sc = 0 THEN 0 ELSE d.apps[t].scopes[sc].id)
      patch == Call("patchRra", src, ~Fails(F, "patchRra"))
  IN IF ~getT.ok THEN [d |-> d, calls |-> <<getT>>, warned |-> TRUE]
     ELSE IF ~getS.ok THEN [d |-> d, calls |-> <<getT, getS>>, warned |-> TRUE]
     ELSE IF new = cur THEN [d |-> d, calls |-> <<getT, getS>>, warned |-> FALSE]
     ELSE IF ~patch.ok THEN [d |-> d, calls |-> <<getT, getS, patch>>, warned |-> TRUE]
     ELSE [d |-> [d EXCEPT !.apps[src].rra = new],
           calls |-> <<getT, getS, patch>>, warned |-> t = 0 \/ sc = 0]

\* addApplicationPermission(sourceAppObjectId, targetAppId, scopeValue):
\* [d, calls, warned: a console.warn was issued]; it never throws
AddApplicationPermission(d, src, targetAppId, scopeValue, F) ==
  LET getT == Call("getTarget", 0, ~Fails(F, "getTarget"))
      t == AppByAppId(d, targetAppId)
      sc == IF t = 0 THEN 0
            ELSE FirstIdx(d.apps[t].scopes, LAMBDA x : x.value = scopeValue)
      getS == Call("getSource", src, ~Fails(F, "getSource"))
      cur == d.apps[src].rra
      new == WithScope(cur, targetAppId, d.apps[t].scopes[sc].id)
      patch == Call("patchRra", src, ~Fails(F, "patchRra"))
  IN IF ~getT.ok THEN [d |-> d, calls |-> <<getT>>, warned |-> TRUE]
     ELSE IF t = 0 \/ sc = 0 THEN [d |-> d, calls |-> <<getT>>, warned |-> TRUE]
     ELSE IF ~getS.ok THEN [d |-> d, calls |-> <<getT, getS>>, warned |-> TRUE]
     ELSE IF new = cur THEN [d |-> d, calls |-> <<getT, getS>>, warned |-> FALSE]
     ELSE IF ~patch.ok THEN [d |-> d, calls |-> <<getT, getS, patch>>, warned |-> TRUE]
     ELSE [d |-> [d EXCEPT !.apps[src].rra = new],
           calls |-> <<getT, getS, patch>>, warned |-> FALSE]

\* configureApp3WebPlatform(app3ObjectId, redirectUris): it never throws
ConfigureApp3WebPlatform(d, app3, redirectUris, F) ==
  LET get == Call("getApp", app3, ~Fails(F, "getApp"))
      patch == Call("patchWeb", app3, ~Fails(F, "patchWeb"))
      webConfig == [set |-> TRUE, redirectUris |-> redirectUris,
                    enableIdTokenIssuance |-> TRUE]
  IN IF ~get.ok THEN [d |-> d, calls |-> <<get>>, warned |-> TRUE]
     ELSE IF ~patch.ok THEN [d |-> d, calls |-> <<get, patch>>, warned |-> TRUE]
     ELSE [d |-> [d EXCEPT !.apps[app3].web = webConfig],
           calls |-> <<get, patch>>, warned |-> FALSE]

\* addMyApiPermission without the check for an existing entry (lines 986-989)
AddMyApiPermissionUnchecked(d, src, targetAppId, F) ==
  LET get == Call("getSource", src, ~Fails(F, "getSource"))
      new == Append(d.apps[src].rra,
                    [resourceAppId |-> targetAppId,
                     resourceAccess |-> <<[id |-> GenerateGuid(d, 1), type |-> "Scope"]>>])
      patch == Call("patchRra", src, ~Fails(F, "patchRra"))
  IN IF ~get.ok THEN [d |-> d, calls |-> <<get>>, warned |-> TRUE]
     ELSE IF ~patch.ok
     THEN [d |-> [d EXCEPT !.guid = @ + 1], calls |-> <<get, patch>>, warned |-> TRUE]
     ELSE [d |-> [d EXCEPT !.apps[src].rra = new, !.guid = @ + 1],
           calls |-> <<get, patch>>, warned |-> FALSE]

\* addMyApiPermission(sourceAppObjectId, targetAppId, applicationIdUri): it
\* never throws; the new entry carries a fresh guid, not a scope of the target
AddMyApiPermission(d, src, targetAppId, F) ==
  LET get == Call("getSource", src, ~Fails(F, "getSource"))
      cur == d.apps[src].rra
      e == FirstIdx(cur, LAMBDA res : res.resourceAppId = targetAppId)
      new == Append(cur, [resourceAppId |-> targetAppId,
                          resourceAccess |-> <<[id |-> GenerateGuid(d, 1),
                                                type |-> "Scope"]>>])
      patch == Call("patchRra", src, ~Fails(F, "patchRra"))
  IN IF ~get.ok THEN [d |-> d, calls |-> <<get>>, warned |-> TRUE]
     ELSE IF e # 0 THEN [d |-> d, calls |-> <<get>>, warned |-> FALSE]
     ELSE IF ~patch.ok
     THEN [d |-> [d EXCEPT !.guid = @ + 1], calls |-> <<get, patch>>, warned |-> TRUE]
     ELSE [d |-> [d EXCEPT !.apps[src].rra = new, !.guid = @ + 1],
           calls |-> <<get, patch>>, warned |-> FALSE]

(* ------------------------------ requests ------------------------------ *)
\* the validated body of POST /api/provision (provisioningSchema): the display
\* names are the caller's, the unique ids are fixed
DefaultNames ==
  [MAHI_CONNECTOR_APP |-> "mahi-connector-app",
   MAHI_API_ACCESS |-> "mahi-api-access",
   MAHI_TEAMS_APP |-> "mahi-teams-app",
   APP_PROXY_SAML_APP |-> "app-proxy-saml-app",
   CHAT_PROXY_APP |-> "chat-proxy-app"]
\* app2Name given the same value as app1Name
ClashingNames == [DefaultNames EXCEPT !.MAHI_API_ACCESS = "mahi-connector-app"]

Requests ==
  {[names |-> n, generateSecrets |-> g, grantAdminConsent |-> c,
    enableCrossPermissions |-> x] :
     n \in {DefaultNames, ClashingNames}, g \in BOOLEAN, c \in BOOLEAN, x \in BOOLEAN}

\* lines 1265-1302
appConfigs(r) ==
  <<[name |-> r.names.MAHI_CONNECTOR_APP, uniqueId |-> "MAHI_CONNECTOR_APP",
     scopes |-> <<"user.read">>, type |-> "web",
     redirectUris |-> <<"https://app1/signin-oidc">>,
     generateSecret |-> r.generateSecrets, grantAdminConsent |-> r.grantAdminConsent],
    [name |-> r.names.MAHI_API_ACCESS, uniqueId |-> "MAHI_API_ACCESS",
     scopes |-> <<"api.access">>, type |-> "web",
     redirectUris |-> <<"https://app2/signin-oidc">>,
     generateSecret |-> r.generateSecrets, grantAdminConsent |-> r.grantAdminConsent],
    [name |-> r.names.MAHI_TEAMS_APP, uniqueId |-> "MAHI_TEAMS_APP",
     scopes |-> <<"resource.manage">>, type |-> "spa",
     redirectUris |-> <<"https://app3/auth/callback">>,
     generateSecret |-> r.generateSecrets, grantAdminConsent |-> r.grantAdminConsent]>>

\* enterprise1ExternalUrl || "https://saml-app-external.company.com"; the
\* requests served leave the optional field out
Enterprise1ExternalUrl == "https://saml-app-external.company.com"

\* lines 1327-1361
enterpriseConfigs(r) ==
  <<[name |-> r.names.APP_PROXY_SAML_APP, uniqueId |-> "APP_PROXY_SAML_APP",
     type |-> "saml", hasSamlSettings |-> TRUE,
     samlIdentifier |-> "api://prefix-env-ent1",
     samlReplyUrl |-> Enterprise1ExternalUrl \o "/saml2/acs",
     externalUrl |-> Enterprise1ExternalUrl],
    [name |-> r.names.CHAT_PROXY_APP, uniqueId |-> "CHAT_PROXY_APP",
     type |-> "proxy-only", hasSamlSettings |-> FALSE,
     samlIdentifier |-> "", samlReplyUrl |-> "",
     externalUrl |-> "https://chat-app-external.company.com"]>>

\* lines 858-875: the permission edges, by unique id
Edges ==
  <<[src |-> "MAHI_CONNECTOR_APP", tgt |-> "MAHI_API_ACCESS", scope |-> "api.access"],
    [src |-> "MAHI_TEAMS_APP", tgt |-> "MAHI_CONNECTOR_APP", scope |-> "user.read"],
    [src |-> "MAHI_TEAMS_APP", tgt |-> "MAHI_API_ACCESS", scope |-> "api.access"]>>

(* ------------------------------- state -------------------------------- *)
VARIABLES
  dir,       \* the remote directory
  req,       \* the request body; every run receives the same one
  run,       \* number of requests received so far
  pc,        \* position of the handler in the current request
  idx,       \* position of the loop the handler is in
  res,       \* provisioningResults
  resp,      \* the response of the current request
  calls,     \* the remote calls of the current request, in order
  failures,  \* number of remote calls that have failed so far
  prev,      \* what the previous request answered
  consent,   \* a call of grantAdminConsent on its own: input and result
  warned,    \* the console.warn lines of step 4 of the current request
  probe      \* another method called on its own: input and result

vars == <<dir, req, run, pc, idx, res, resp, calls, failures, prev, consent, warned, probe>>

NoResults ==
  [resourceGroup |-> FALSE, appRegistrations |-> <<>>, enterpriseApplications |-> <<>>,
   errors |-> <<>>, warnings |-> <<>>]
NoResponse == [count |-> 0, success |-> FALSE, status |-> 0, hasResults |-> FALSE]
NoProbe == [phase |-> "none"]
NoConsent == [phase |-> "none", spId |-> 0, rra |-> <<>>, before |-> {},
              granted |-> FALSE, log |-> <<>>]

\* the calls of one step, marked with the step that issued them
By(cs, who) == [i \in 1..Len(cs) |->
                  [op |-> cs[i].op, obj |-> cs[i].obj, ok |-> cs[i].ok, by |-> who]]

\* the sets of remote calls that may fail in one step: as many as are left
Budget(points) == SubsUpTo({<<op, 0, 0>> : op \in points}, MaxFailures - failures)
ConsentPoints(rra) ==
  {<<"findResSp", r, 0>> : r \in 1..Len(rra)}
    \cup UNION {{<<"assign", r, p>> : p \in 1..Len(rra[r].resourceAccess)} :
                  r \in 1..Len(rra)}

Init ==
  /\ dir = EmptyDirectory
  /\ req \in Requests
  /\ run = 0
  /\ pc = "idle"
  /\ idx = 0
  /\ res = NoResults
  /\ resp = NoResponse
  /\ calls = <<>>
  /\ failures = 0
  /\ prev = [ran |-> FALSE, success |-> FALSE, errors |-> 0]
  /\ consent = NoConsent
  /\ warned = <<>>
  /\ probe = NoProbe

(* --------------------------- POST /api/provision ---------------------- *)
\* lines 1227-1246 and 1474-1488: a request arrives; the services are
\* initialized (the token request is the authentication), and a failure is
\* answered by the handler's catch
StartRun ==
  /\ pc \in {"idle", "done"}
  /\ run < MaxRuns
  /\ \E F \in Budget({"getToken"}) :
       /\ failures' = failures + Cardinality(F)
       /\ calls' = By(<<Call("getToken", 0, ~Fails(F, "getToken"))>>, "initialize")
       /\ IF Fails(F, "getToken")
          THEN /\ pc' = "done"
               /\ resp' = [count |-> 1, success |-> FALSE, status |-> 500,
                           hasResults |-> FALSE]
          ELSE /\ pc' = "rg"
               /\ resp' = NoResponse
  /\ run' = run + 1
  /\ prev' = [ran |-> run > 0, success |-> resp.success, errors |-> Len(res.errors)]
  /\ res' = NoResults
  /\ idx' = 0
  /\ warned' = <<>>
  /\ UNCHANGED <<dir, req, consent, probe>>

\* lines 1248-1262: step 1
CreateResourceGroupStep ==
  /\ pc = "rg"
  /\ \E F \in Budget({"createOrUpdate"}) :
       /\ failures' = failures + Cardinality(F)
       /\ calls' = calls \o By(<<Call("createOrUpdate", 0, ~Fails(F, "createOrUpdate"))>>,
                               "resourceGroup")
       /\ res' = IF Fails(F, "createOrUpdate")
                 THEN [res EXCEPT !.errors =
                         Append(@, [kind |-> "Resource Group", uid |-> "", name |-> ""])]
                 ELSE [res EXCEPT !.resourceGroup = TRUE]
  /\ pc' = "apps"
  /\ idx' = 1
  /\ UNCHANGED <<dir, req, run, resp, prev, consent, warned, probe>>

\* a for-loop whose body is a try/catch that pushes the error (1304-1324,
\* 1363-1383): where the handler is after turn i of n, whether or not the
\* turn threw
NextTurnAborting(threw, i, n, here, after) ==
  IF i < n /\ ~threw THEN [pc |-> here, idx |-> i + 1] ELSE [pc |-> after, idx |-> 1]

\* a turn that threw leaves the handler waiting for ever
NextTurnHanging(threw, i, n, here, after) ==
  IF threw THEN [pc |-> "hung", idx |-> i]
  ELSE IF i < n THEN [pc |-> here, idx |-> i + 1] ELSE [pc |-> after, idx |-> 1]

NextTurn(threw, i, n, here, after) ==
  IF i < n THEN [pc |-> here, idx |-> i + 1] ELSE [pc |-> after, idx |-> 1]

\* the remote calls of createAppRegistration
AppPoints(config) ==
  {<<op, 0, 0>> : op \in {"findApp", "findSp", "createApp", "patchUri", "addPassword",
                           "createSp"}}
    \cup ConsentPoints(GetAppPermissionsByUniqueId(config.uniqueId))

\* lines 1304-1324: one turn of the app registration loop
AppRegistrationStep ==
  /\ pc = "apps"
  /\ LET config == appConfigs(req)[idx] IN
     \E F \in SubsUpTo(AppPoints(config), MaxFailures - failures) :
       LET r == CreateAppRegistration(dir, config, F) IN
       /\ Cardinality(F) = Failed(r.calls)
       /\ failures' = failures + Cardinality(F)
       /\ dir' = r.d
       /\ calls' = calls \o By(r.calls, config.uniqueId)
       /\ res' = IF r.threw
                 THEN [res EXCEPT !.errors =
                         Append(@, [kind |-> "App Registration", uid |-> config.uniqueId,
                                    name |-> config.name])]
                 ELSE [res EXCEPT !.appRegistrations = Append(@, r.out)]
       /\ LET n == NextTurn(r.threw, idx, Len(appConfigs(req)), "apps", "ents") IN
          pc' = n.pc /\ idx' = n.idx
  /\ UNCHANGED <<req, run, resp, prev, consent, warned, probe>>

\* lines 1363-1383: one turn of the enterprise application loop
EnterpriseApplicationStep ==
  /\ pc = "ents"
  /\ LET config == enterpriseConfigs(req)[idx] IN
     \E F \in Budget({"findApp", "findSp", "createApp", "createSp"}) :
       LET r == CreateEnterpriseApplication(dir, config, F) IN
       /\ Cardinality(F) = Failed(r.calls)
       /\ failures' = failures + Cardinality(F)
       /\ dir' = r.d
       /\ calls' = calls \o By(r.calls, config.uniqueId)
       /\ res' = IF r.threw
                 THEN [res EXCEPT !.errors =
                         Append(@, [kind |-> "Enterprise App", uid |-> config.uniqueId,
                                    name |-> config.name])]
                 ELSE [res EXCEPT !.enterpriseApplications = Append(@, r.out)]
       /\ LET n == NextTurn(r.threw, idx, Len(enterpriseConfigs(req)), "ents", "step4") IN
          pc' = n.pc /\ idx' = n.idx
  /\ UNCHANGED <<req, run, resp, prev, consent, warned, probe>>

\* appRegistrations.find((app) => app.uniqueId === uid): its position, or 0
FindByUniqueId(regs, uid) == FirstIdx(regs, LAMBDA a : a.uniqueId = uid)

\* lines 1386-1416 and 833-856: step 4 is entered or skipped
BeginCrossPermissions ==
  /\ pc = "step4"
  /\ IF req.enableCrossPermissions /\ Len(res.appRegistrations) >= 3
     THEN IF \/ Len(res.appRegistrations) < 3
             \/ \E k \in 1..3 : FindByUniqueId(res.appRegistrations, AppUids[k]) = 0
          THEN /\ pc' = "finish"
               /\ idx' = 0
               /\ res' = [res EXCEPT !.warnings = Append(@,
                    "Cross-application permissions configured including App3 web platform and My API access")]
          ELSE /\ pc' = "wire"
               /\ idx' = 1
               /\ res' = res
     ELSE /\ pc' = "finish"
          /\ idx' = 0
          /\ res' = IF ~req.enableCrossPermissions
                    THEN [res EXCEPT !.warnings = Append(@,
                      "Cross-application permissions skipped - configure manually if needed")]
                    ELSE res
  /\ UNCHANGED <<dir, req, run, resp, calls, failures, prev, consent, warned, probe>>

\* the outcome of the app registration with this unique id
Outcome(uid) == res.appRegistrations[FindByUniqueId(res.appRegistrations, uid)]

\* lines 858-875: one addApplicationPermission call of
\* configureCrossApplicationPermissions
AddPermissionStep ==
  /\ pc = "wire"
  /\ LET e == Edges[idx] IN
     \E F \in Budget({"getTarget", "getSource", "patchRra"}) :
       LET r == AddApplicationPermission(dir, Outcome(e.src).objectId,
                                         Outcome(e.tgt).appId, e.scope, F) IN
       /\ Cardinality(F) = Failed(r.calls)
       /\ failures' = failures + Cardinality(F)
       /\ dir' = r.d
       /\ calls' = calls \o By(r.calls, "wire")
       /\ warned' = IF r.warned THEN Append(warned, [by |-> "wire", idx |-> idx])
                     ELSE warned
  /\ IF idx < Len(Edges)
     THEN /\ idx' = idx + 1
          /\ pc' = pc
     ELSE /\ idx' = 0
          /\ pc' = "web"
  /\ UNCHANGED <<req, run, res, resp, prev, consent, probe>>

\* line 878
WebPlatformStep ==
  /\ pc = "web"
  /\ \E F \in Budget({"getApp", "patchWeb"}) :
       LET r == ConfigureApp3WebPlatform(dir, Outcome("MAHI_TEAMS_APP").objectId,
                                         Outcome("MAHI_TEAMS_APP").redirectUris, F) IN
       /\ Cardinality(F) = Failed(r.calls)
       /\ failures' = failures + Cardinality(F)
       /\ dir' = r.d
       /\ calls' = calls \o By(r.calls, "web")
       /\ warned' = IF r.warned THEN Append(warned, [by |-> "web", idx |-> 0])
                     ELSE warned
  /\ pc' = "myapi"
  /\ UNCHANGED <<req, run, idx, res, resp, prev, consent, probe>>

\* lines 879-887 and 1394-1403: the last call of
\* configureCrossApplicationPermissions, and its return to step 4
MyApiPermissionStep ==
  /\ pc = "myapi"
  /\ \E F \in Budget({"getSource", "patchRra"}) :
       LET r == AddMyApiPermission(dir, Outcome("MAHI_TEAMS_APP").objectId,
                                   Outcome("MAHI_API_ACCESS").appId, F) IN
       /\ Cardinality(F) = Failed(r.calls)
       /\ failures' = failures + Cardinality(F)
       /\ dir' = r.d
       /\ calls' = calls \o By(r.calls, "myapi")
       /\ warned' = IF r.warned THEN Append(warned, [by |-> "myapi", idx |-> 0])
                     ELSE warned
  /\ res' = [res EXCEPT !.warnings = Append(@,
       "Cross-application permissions configured including App3 web platform and My API access")]
  /\ pc' = "finish"
  /\ UNCHANGED <<req, run, idx, resp, prev, consent, probe>>

\* lines 1418-1435: the warnings about manual steps
ManualWarnings(r, w) ==
  LET w1 == Append(w, "Application Proxy connectors must be installed manually")
      w2 == IF \E i \in 1..Len(r.enterpriseApplications) :
                 r.enterpriseApplications[i].type = "saml"
            THEN Append(w1, "SAML certificates need to be configured manually for Enterprise App 1")
            ELSE w1
  IN IF req.grantAdminConsent
     THEN Append(w2, "Admin consent attempted - verify permissions in Azure Portal if needed")
     ELSE w2

\* line 1440: the success field of the answer that carries the report
SuccessOnlyWithoutErrors(results) == Len(results.errors) = 0

ResponseSuccess(results) == TRUE

\* lines 1418-1473: the report is completed and sent
Respond ==
  /\ pc = "finish"
  /\ res' = [res EXCEPT !.warnings = ManualWarnings(res, @)]
  /\ resp' = [count |-> resp.count + 1, success |-> ResponseSuccess(res), status |-> 200,
              hasResults |-> TRUE]
  /\ pc' = "done"
  /\ UNCHANGED <<dir, req, run, idx, calls, failures, prev, consent, warned, probe>>

Next ==
  \/ StartRun
  \/ CreateResourceGroupStep
  \/ AppRegistrationStep
  \/ EnterpriseApplicationStep
  \/ BeginCrossPermissions
  \/ AddPermissionStep
  \/ WebPlatformStep
  \/ MyApiPermissionStep
  \/ Respond

Spec == Init /\ [][Next]_vars

(* ------------------ grantAdminConsent called on its own --------------- *)
\* the permissions a resource of the input may list, in this order
ConsentPool == <<Role(1), Role(2), UserRead>>

RECURSIVE SubSeqs(_)
\* the subsequences of s
SubSeqs(s) ==
  IF s = <<>> THEN {<<>>}
  ELSE LET T == SubSeqs(Tail(s)) IN T \cup {<<Head(s)>> \o t : t \in T}

\* a tenant with one application that has its principal (id 2), to which some
\* roles of Microsoft Graph (principal 1) may be assigned already
ConsentDirectories ==
  LET app == [name |-> "app", appId |-> AppIdOf(1), signInAudience |-> "AzureADMyOrg",
              scopes |-> <<>>, rra |-> <<>>, identifierUris |-> <<>>, web |-> NoWeb,
              spa |-> NoSpa, passwords |-> 0]
      sp == [appId |-> AppIdOf(1), tags |-> <<>>, sso |-> "none"]
  IN {[apps |-> <<app>>, sps |-> Append(EmptyDirectory.sps, sp), assigned |-> A,
       guid |-> 0] : A \in SUBSET {<<2, 1, Role(1).id>>, <<2, 1, Role(2).id>>}}

\* requiredResourceAccess lists: up to MaxResources resources, each Microsoft
\* Graph or the application itself
ConsentInputs ==
  LET Resources == {[resourceAppId |-> a, resourceAccess |-> ps] :
                      a \in {GraphAppId, AppIdOf(1)}, ps \in SubSeqs(ConsentPool)}
  IN UNION {[1..n -> Resources] : n \in 1..MaxResources}

ConsentInit ==
  /\ dir \in ConsentDirectories
  /\ consent \in {[NoConsent EXCEPT !.phase = "called", !.spId = 2, !.rra = rra,
                                    !.before = dir.assigned] : rra \in ConsentInputs}
  /\ req \in {r \in Requests : r.names = DefaultNames /\ r.generateSecrets
                                 /\ r.grantAdminConsent /\ r.enableCrossPermissions}
  /\ run = 0
  /\ pc = "idle"
  /\ idx = 0
  /\ res = NoResults
  /\ resp = NoResponse
  /\ calls = <<>>
  /\ failures = 0
  /\ prev = [ran |-> FALSE, success |-> FALSE, errors |-> 0]
  /\ warned = <<>>
  /\ probe = NoProbe

\* grantAdminConsent(consent.spId, consent.rra) runs to its return
ConsentCall ==
  /\ consent.phase = "called"
  /\ \E F \in SubsUpTo(ConsentPoints(consent.rra), MaxFailures - failures) :
       LET r == GrantAdminConsent(dir, consent.spId, consent.rra, F) IN
       /\ Cardinality(F) = Failed(r.calls)
       /\ failures' = failures + Cardinality(F)
       /\ dir' = r.d
       /\ calls' = By(r.calls, "grantAdminConsent")
       /\ consent' = [consent EXCEPT !.phase = "returned", !.granted = r.granted,
                                     !.log = r.log]
  /\ UNCHANGED <<req, run, pc, idx, res, resp, prev, warned, probe>>

ConsentNext == ConsentCall

SpecConsent == ConsentInit /\ [][ConsentNext]_vars

(* ------------- the permission edges applied on their own -------------- *)
\* the tenant and the outcomes after the application loop of a request r
\* served by an empty tenant, no call failing
Provisioned(r) ==
  LET r1 == CreateAppRegistration(EmptyDirectory, appConfigs(r)[1], {})
      r2 == CreateAppRegistration(r1.d, appConfigs(r)[2], {})
      r3 == CreateAppRegistration(r2.d, appConfigs(r)[3], {})
  IN [d |-> r3.d, regs |-> <<r1.out, r2.out, r3.out>>]

\* lines 858-875: one addApplicationPermission call for the edge e, with the
\* outcomes regs, no call failing: the directory after it
EdgeApplied(d, regs, e) ==
  AddApplicationPermission(d, regs[FindByUniqueId(regs, e.src)].objectId,
                           regs[FindByUniqueId(regs, e.tgt)].appId, e.scope, {}).d

RECURSIVE ApplyEdges(_, _, _, _)
\* the calls for the edges order[k], order[k + 1], ... one after the other
ApplyEdges(d, regs, order, k) ==
  IF k > Len(order) THEN d
  ELSE ApplyEdges(EdgeApplied(d, regs, Edges[order[k]]), regs, order, k + 1)

\* the orders in which the edges can be applied
Orders == {o \in [1..Len(Edges) -> 1..Len(Edges)] : \A i, j \in 1..Len(Edges) : o[i] = o[j] => i = j}

\* the applications are provisioned, some edges may have been applied by an
\* earlier request, and the edges are about to be applied in some order
WiringInit ==
  /\ \E r \in Requests, s \in SubSeqs(<<1, 2, 3>>), o \in Orders :
       LET P == Provisioned(r) IN
       /\ req = r
       /\ dir = ApplyEdges(P.d, P.regs, s, 1)
       /\ res = [NoResults EXCEPT !.appRegistrations = P.regs]
       /\ probe = [phase |-> "wiring", order |-> o, before |-> dir, done |-> 0]
  /\ run = 0
  /\ pc = "idle"
  /\ idx = 0
  /\ resp = NoResponse
  /\ calls = <<>>
  /\ failures = 0
  /\ prev = [ran |-> FALSE, success |-> FALSE, errors |-> 0]
  /\ consent = NoConsent
  /\ warned = <<>>

\* the next addApplicationPermission call in the order probe.order
WiringApply ==
  /\ probe.phase = "wiring"
  /\ probe.done < Len(Edges)
  /\ LET e == Edges[probe.order[probe.done + 1]]
         r == AddApplicationPermission(dir, Outcome(e.src).objectId,
                                       Outcome(e.tgt).appId, e.scope, {})
     IN /\ dir' = r.d
        /\ calls' = calls \o By(r.calls, "wire")
        /\ warned' = IF r.warned
                     THEN Append(warned, [by |-> "wire", idx |-> probe.order[probe.done + 1]])
                     ELSE warned
  /\ probe' = [probe EXCEPT !.done = @ + 1]
  /\ UNCHANGED <<req, run, pc, idx, res, resp, failures, prev, consent>>

WiringNext == WiringApply

SpecWiring == WiringInit /\ [][WiringNext]_vars

(* ---------------- checkExistingApplication called on its own ---------- *)
\* the display names of the tenant's applications and of the lookup
LookupNames == {"mahi-connector-app", "mahi-api-access", "mahi-teams-app"}

\* tenants with up to MaxApps applications, several of which may carry one
\* display name
ResolverDirectories ==
  LET app(n, o) == [name |-> n, appId |-> AppIdOf(o), signInAudience |-> "AzureADMyOrg",
                    scopes |-> <<>>, rra |-> <<>>, identifierUris |-> <<>>,
                    web |-> NoWeb, spa |-> NoSpa, passwords |-> 0]
  IN UNION {{[EmptyDirectory EXCEPT !.apps = [o \in 1..k |-> app(ns[o], o)]] :
                ns \in [1..k -> LookupNames]} : k \in 0..MaxApps}

ResolverInit ==
  /\ dir \in ResolverDirectories
  /\ probe \in {[phase |-> "lookup", name |-> n, id |-> 0, warned |-> FALSE] :
                  n \in LookupNames}
  /\ req \in {r \in Requests : r.names = DefaultNames /\ r.generateSecrets
                                 /\ r.grantAdminConsent /\ r.enableCrossPermissions}
  /\ run = 0
  /\ pc = "idle"
  /\ idx = 0
  /\ res = NoResults
  /\ resp = NoResponse
  /\ calls = <<>>
  /\ failures = 0
  /\ prev = [ran |-> FALSE, success |-> FALSE, errors |-> 0]
  /\ consent = NoConsent
  /\ warned = <<>>

\* checkExistingApplication(probe.name) runs to its return
ResolverCall ==
  /\ probe.phase = "lookup"
  /\ \E F \in Budget({"findApp"}) :
       LET r == CheckExistingApplication(dir, probe.name, F) IN
       /\ failures' = failures + Cardinality(F)
       /\ calls' = By(r.calls, "checkExistingApplication")
       /\ probe' = [probe EXCEPT !.phase = "returned", !.id = r.id, !.warned = r.warned]
  /\ UNCHANGED <<dir, req, run, pc, idx, res, resp, prev, consent, warned>>

ResolverNext == ResolverCall

SpecResolver == ResolverInit /\ [][ResolverNext]_vars

(* ============================== claims ================================ *)
\* the remote calls the current request issued in the step `who`
CallsBy(who) == {i \in 1..Len(calls) : calls[i].by = who}
\* a call of `who` with this request was issued / failed
Issued(who, op) == \E i \in CallsBy(who) : calls[i].op = op
FailedCall(who, op) == \E i \in CallsBy(who) : calls[i].op = op /\ ~calls[i].ok
\* the request got past authentication
Authenticated == Len(calls) > 0 /\ calls[1].op = "getToken" /\ calls[1].ok
\* both loops of the current request are over
LoopsDone == Authenticated /\ pc \in {"step4", "wire", "web", "myapi", "finish", "done"}
\* the current request has been answered with its report
Reported == pc = "done" /\ resp.count = 1 /\ resp.hasResults

AllOutcomes == res.appRegistrations \o res.enterpriseApplications
OutcomesOf(uid) == {i \in 1..Len(AllOutcomes) : AllOutcomes[i].uniqueId = uid}
ErrorsOf(uid) == {i \in 1..Len(res.errors) : res.errors[i].uid = uid}
AllUids == {AppUids[k] : k \in 1..3} \cup {EntUids[k] : k \in 1..2}

\* C1: idempotence of a run.  When the previous run, with the same request,
\* reported no errors, the current run issues no create-application and no
\* create-principal call, and every outcome in its report is flagged adopted.
C1_SecondRunAdoptsEverything ==
  (prev.ran /\ prev.success /\ prev.errors = 0) =>
    /\ \A i \in 1..Len(calls) : calls[i].op \notin {"createApp", "createSp"}
    /\ \A i \in 1..Len(AllOutcomes) : AllOutcomes[i].isExisting

\* C3: partial failure containment.  Once both loops are over, every
\* application and every enterprise object has been attempted; each has either
\* exactly one outcome in the report (flagged created exactly when this run
\* created it) or exactly one error entry naming it, never both; it has the
\* error entry exactly when its creation, identifier URI or principal call
\* failed; and the errors list holds nothing else about applications.
C3_PartialFailureContainment ==
  LoopsDone =>
    /\ \A uid \in AllUids :
         /\ Issued(uid, "findApp")
         /\ Cardinality(OutcomesOf(uid)) + Cardinality(ErrorsOf(uid)) = 1
         /\ ErrorsOf(uid) # {} <=>
              \E op \in {"createApp", "patchUri", "createSp"} : FailedCall(uid, op)
         /\ \A i \in OutcomesOf(uid) :
              ~AllOutcomes[i].isExisting <=>
                 \E c \in CallsBy(uid) : calls[c].op = "createApp" /\ calls[c].ok
    /\ \A i \in 1..Len(res.errors) :
         res.errors[i].kind # "Resource Group" => res.errors[i].uid \in AllUids

\* C3 witness: one app registration failed, the two others were created after
\* it, both enterprise objects were provisioned
C3_Witness ==
  /\ LoopsDone
  /\ ErrorsOf("MAHI_CONNECTOR_APP") # {}
  /\ \A uid \in AllUids \ {"MAHI_CONNECTOR_APP"} :
       \E i \in OutcomesOf(uid) : ~AllOutcomes[i].isExisting

\* C4: a run is answered with success = false and no report exactly when the
\* token request (the authentication) failed; the token request is the first
\* remote call of the run and is made once; every other run that ends is
\* answered once with success = true and the report, whatever failed.
C4_AbortOnlyOnAuthentication ==
  /\ \A i \in 1..Len(calls) : calls[i].op = "getToken" <=> i = 1
  /\ pc = "done" =>
       /\ resp.count = 1
       /\ (~resp.success /\ ~resp.hasResults) <=> ~Authenticated
       /\ (resp.success /\ resp.hasResults) <=> Authenticated
  /\ pc \notin {"idle", "done"} => Authenticated /\ resp.count = 0

\* C4 witness: a run answered with success = true and the report although
\* one of its resources failed
C4_Witness ==
  /\ Reported
  /\ resp.success /\ resp.hasResults
  /\ Len(res.errors) = 1

\* a declared-permission list with at most one entry per resource and, in
\* each entry, at most one item per permission id
NoDuplicateIn(rra) ==
  /\ \A i, j \in 1..Len(rra) : rra[i].resourceAppId = rra[j].resourceAppId => i = j
  /\ \A i \in 1..Len(rra) :
       \A a, b \in 1..Len(rra[i].resourceAccess) :
         rra[i].resourceAccess[a].id = rra[i].resourceAccess[b].id => a = b
NoDuplicates(d) == \A o \in 1..Len(d.apps) : NoDuplicateIn(d.apps[o].rra)

\* the id of the scope e.scope on the application the run resolved for e.tgt
\* in directory d; 0 when that application exposes no such scope
TargetScopeId(d, e) ==
  LET t == AppByAppId(d, Outcome(e.tgt).appId)
      k == IF t = 0 THEN 0 ELSE FirstIdx(d.apps[t].scopes, LAMBDA x : x.value = e.scope)
  IN IF k = 0 THEN 0 ELSE d.apps[t].scopes[k].id
\* the entries for e's target in the declared-permission list of e's source
EntriesFor(d, e) ==
  LET rra == d.apps[Outcome(e.src).objectId].rra
  IN {i \in 1..Len(rra) : rra[i].resourceAppId = Outcome(e.tgt).appId}
\* the items of entry i of e's source that carry e's scope id
ScopeItems(d, e, i) ==
  LET acc == d.apps[Outcome(e.src).objectId].rra[i].resourceAccess
  IN {a \in 1..Len(acc) : acc[a].id = TargetScopeId(d, e) /\ acc[a].type = "Scope"}
EdgeSatisfied(d, e) ==
  TargetScopeId(d, e) # 0 /\ \E i \in EntriesFor(d, e) : ScopeItems(d, e, i) # {}
EdgeExactlyOnce(d, e) ==
  /\ TargetScopeId(d, e) # 0
  /\ Cardinality(EntriesFor(d, e)) = 1
  /\ \A i \in EntriesFor(d, e) : Cardinality(ScopeItems(d, e, i)) = 1

\* C2: no duplicate permission edges.  No step ever leaves a declared-
\* permission list with two entries for one target or two items for one
\* permission id; an addApplicationPermission call for an edge that is already
\* satisfied changes nothing in the directory and issues no write of a
\* declared-permission list; and one whose calls all succeed, for a scope the
\* target exposes, leaves exactly one entry for the target with exactly one
\* item for the scope, however often the edge has been applied before.
C2_NoDuplicatePermissionEdges ==
  [][ /\ NoDuplicates(dir')
      /\ pc = "wire" =>
           /\ EdgeSatisfied(dir, Edges[idx]) =>
                /\ dir' = dir
                /\ \A i \in (Len(calls) + 1)..Len(calls') : calls'[i].op # "patchRra"
           /\ (failures' = failures /\ TargetScopeId(dir, Edges[idx]) # 0) =>
                EdgeExactlyOnce(dir', Edges[idx]) ]_vars

\* C2 witness: the second run has applied, without any failure, all three
\* edges to the applications the first run created and wired
C2_Witness ==
  /\ run = 2 /\ pc = "web" /\ failures = 0
  /\ \A i \in 1..Len(res.appRegistrations) : res.appRegistrations[i].isExisting
  /\ \A k \in 1..Len(Edges) : EdgeExactlyOnce(dir, Edges[k])

(* ---- claims about grantAdminConsent, checked under SpecConsent ---- *)
ConsentReturned == consent.phase = "returned"
Attempts == {i \in 1..Len(consent.log) : consent.log[i].ev = "assign"}
Attempted(r, p) == \E i \in Attempts : consent.log[i].r = r /\ consent.log[i].p = p
ResolveThrew(r) ==
  \E i \in 1..Len(consent.log) :
    consent.log[i].ev = "resolve" /\ consent.log[i].r = r /\ consent.log[i].res = "throw"
IsRole(r, p) == consent.rra[r].resourceAccess[p].type = "Role"
Positions ==
  {rp \in (1..Len(consent.rra)) \X (1..Len(ConsentPool)) :
     rp[2] <= Len(consent.rra[rp[1]].resourceAccess)}

C8_CredentialNeverFailsStep ==
  /\ \A i \in 1..Len(res.appRegistrations) :
       LET o == res.appRegistrations[i] IN
       /\ o.clientSecret = SecretMinted <=>
            /\ req.generateSecrets
            /\ \E c \in CallsBy(o.uniqueId) : calls[c].op = "addPassword" /\ calls[c].ok
       /\ o.clientSecret # SecretMinted => o.clientSecret \in Placeholders
       /\ o.clientSecret \notin {"null", Undefined}
  /\ \A k \in 1..Len(AppUids) :
       (/\ FailedCall(AppUids[k], "addPassword")
        /\ \A c \in CallsBy(AppUids[k]) :
             ~calls[c].ok => calls[c].op \in {"addPassword", "findSp", "findResSp", "assign"})
         => (OutcomesOf(AppUids[k]) # {} /\ ErrorsOf(AppUids[k]) = {})
  /\ ~req.generateSecrets => \A c \in 1..Len(calls) : calls[c].op # "addPassword"

\* C8 witness: minting succeeded for a new application and failed for an
\* adopted one, and both outcomes are in the report, the second with its
\* placeholder
C8_Witness ==
  /\ \E i \in 1..Len(res.appRegistrations) :
       /\ ~res.appRegistrations[i].isExisting
       /\ res.appRegistrations[i].clientSecret = SecretMinted
  /\ \E i \in 1..Len(res.appRegistrations) :
       /\ res.appRegistrations[i].isExisting
       /\ res.appRegistrations[i].clientSecret = SecretFailedExisting

\* the applications of d, credentials aside
WithoutPasswords(d) == [k \in 1..Len(d.apps) |-> [d.apps[k] EXCEPT !.passwords = 0]]

\* C9: adoption leaves configuration untouched.  A createAppRegistration
\* call whose lookup finds the name returns an adopted outcome for the
\* application found, and a call that returns an adopted outcome has issued
\* only lookups and, at most, addPassword: no application is created or
\* updated, no principal created, no role assigned.
C9_AdoptionTouchesNothing ==
  [][ pc = "apps" =>
        LET name == appConfigs(req)[idx].name
            found == AppByName(dir, name) # 0 /\ calls'[Len(calls) + 1].ok
            n == Len(res'.appRegistrations)
            adopted == n > Len(res.appRegistrations) /\ res'.appRegistrations[n].isExisting
        IN /\ found => adopted /\ res'.appRegistrations[n].objectId = AppByName(dir, name)
           /\ adopted =>
                /\ \A i \in (Len(calls) + 1)..Len(calls') :
                     calls'[i].op \in {"findApp", "findSp", "addPassword"}
                /\ WithoutPasswords(dir') = WithoutPasswords(dir)
                /\ dir'.sps = dir.sps
                /\ dir'.assigned = dir.assigned ]_vars

\* C9 witness: the second run has adopted the API application and minted a
\* new credential for it
C9_Witness ==
  /\ run = 2
  /\ \E i \in 1..Len(res.appRegistrations) :
       /\ res.appRegistrations[i].isExisting
       /\ res.appRegistrations[i].uniqueId = "MAHI_API_ACCESS"
       /\ res.appRegistrations[i].clientSecret = SecretMinted
       /\ dir.apps[res.appRegistrations[i].objectId].passwords = 2

AllCreated ==
  /\ Len(res.appRegistrations) = 3
  /\ \A i \in 1..3 : ~res.appRegistrations[i].isExisting
WiringCallFailed == \E op \in {"getTarget", "getSource", "patchRra"} : FailedCall("wire", op)

EntTurn(type) == pc = "ents" /\ enterpriseConfigs(req)[idx].type = type
\* the entries a list has gained in this step
Gained(old, new) == (Len(old) + 1)..Len(new)
\* the principal carries a tag of the SAML category
TaggedSaml(sp) == \E t \in 1..Len(sp.tags) : sp.tags[t] = "SAML"
\* the outcomes of the current request for enterprise specs of this profile
\* that were created by it
CreatedEnt(type) ==
  {i \in 1..Len(res.enterpriseApplications) :
     /\ res.enterpriseApplications[i].type = type
     /\ ~res.enterpriseApplications[i].isExisting}
\* the principal an outcome refers to
PrincipalOf(out) == dir.sps[out.servicePrincipalId]
\* url is an address at base
At(url, base) == \E path \in {"", "/saml2/acs", "/login"} : url = base \o path

\* C11: proxy-only profile, negative part.  A createEnterpriseApplication
\* call for the proxy-only spec changes no application's identifier URIs and
\* gives a new application none, leaves the existing principals as they are,
\* creates no principal whose single-sign-on mode is "saml" or that carries a
\* SAML tag, and returns no outcome with ssoMode = "saml".
C11_ProxyOnlyNeverSaml ==
  [][ EntTurn("proxy-only") =>
        /\ \A o \in 1..Len(dir.apps) :
             dir'.apps[o].identifierUris = dir.apps[o].identifierUris
        /\ \A o \in Gained(dir.apps, dir'.apps) : dir'.apps[o].identifierUris = <<>>
        /\ \A p \in 1..Len(dir.sps) : dir'.sps[p] = dir.sps[p]
        /\ \A p \in Gained(dir.sps, dir'.sps) :
             dir'.sps[p].sso # "saml" /\ ~TaggedSaml(dir'.sps[p])
        /\ \A i \in Gained(res.enterpriseApplications, res'.enterpriseApplications) :
             res'.enterpriseApplications[i].ssoMode # "saml" ]_vars

\* C11 witness: the proxy-only application and its principal were created
\* and the outcome is in the report
C11_Witness ==
  \E i \in CreatedEnt("proxy-only") :
    /\ dir.apps[res.enterpriseApplications[i].objectId].identifierUris = <<>>
    /\ PrincipalOf(res.enterpriseApplications[i]).sso = "none"

\* C12: proxy-only profile, positive part.  The principal created for the
\* proxy-only spec has the single-sign-on mode "integrated" and tags that
\* differ from those of the principal of the saml spec, and the outcome's
\* ssoMode is "integrated".
C12_ProxyOnlyIntegrated ==
  \A i \in CreatedEnt("proxy-only") :
    LET out == res.enterpriseApplications[i] IN
    /\ PrincipalOf(out).sso = "integrated"
    /\ PrincipalOf(out).tags # EnterprisePrincipalData(enterpriseConfigs(req)[1], 0).tags
    /\ out.ssoMode = "integrated"

\* C13: federated-SSO profile.  For a newly created saml spec the
\* application's only identifier URI is the external address, its redirect
\* target is at the external address, the principal's single-sign-on mode is
\* "saml" and the principal carries the enterprise tag.
C13_FederatedProfile ==
  \A i \in CreatedEnt("saml") :
    LET out == res.enterpriseApplications[i]
        app == dir.apps[out.objectId]
        config == enterpriseConfigs(req)[1]
    IN /\ app.identifierUris = <<config.externalUrl>>
       /\ app.web.set /\ Len(app.web.redirectUris) = 1
       /\ At(app.web.redirectUris[1], config.externalUrl)
       /\ PrincipalOf(out).sso = "saml" /\ out.ssoMode = "saml"
       /\ PrincipalOf(out).tags = <<"WindowsAzureActiveDirectoryIntegratedApp">>

\* C14: every outcome the enterprise loop has put in the report, created or
\* adopted, refers to an application that has a principal in the directory.
C14_OutcomeHasPrincipal ==
  \A i \in 1..Len(res.enterpriseApplications) :
    SpByAppId(dir, res.enterpriseApplications[i].appId) # 0

(* ---- claims about degraded failures and the wiring ---- *)
\* the warnings the handler pushes whether or not anything failed (lines
\* 1401-1435)
RoutineWarnings ==
  {"Cross-application permissions configured including App3 web platform and My API access",
   "Cross-application permissions skipped - configure manually if needed",
   "Application Proxy connectors must be installed manually",
   "SAML certificates need to be configured manually for Enterprise App 1",
   "Admin consent attempted - verify permissions in Azure Portal if needed"}
\* the application steps of the current request in which minting failed
MintFailed == {k \in 1..3 : FailedCall(AppUids[k], "addPassword")}
\* the report's warnings list has an entry that records a failure
FailureWarning == \E w \in 1..Len(res.warnings) : res.warnings[w] \notin RoutineWarnings

\* C15: in an answered run every degraded failure (minting a credential
\* failed, a permission edge could not be applied) has an entry in the
\* report's warnings list, and the application it affected is in the report
\* as an outcome.
C15_DegradedFailureWarned ==
  Reported =>
    /\ \A k \in MintFailed : OutcomesOf(AppUids[k]) # {}
    /\ (MintFailed # {} \/ warned # <<>>) => FailureWarning

\* C16: a missing scope is skipped.  An addApplicationPermission call for an
\* edge whose target application, as the directory has it, exposes no scope
\* of the edge's name issues one console.warn, leaves the directory as it
\* is, requests nothing of the source application, adds no error, and the
\* handler goes on to the next edge (after the last, to the web platform);
\* and the edges after a skipped one are applied: a later call for a scope
\* that exists, with no call failing, leaves its edge applied.
C16_MissingScopeSkipped ==
  [][ pc = "wire" =>
        /\ TargetScopeId(dir, Edges[idx]) = 0 =>
             /\ warned' = Append(warned, [by |-> "wire", idx |-> idx])
             /\ dir' = dir
             /\ \A c \in Gained(calls, calls') : calls'[c].op = "getTarget"
             /\ res'.errors = res.errors
             /\ IF idx < Len(Edges) THEN pc' = "wire" /\ idx' = idx + 1 ELSE pc' = "web"
        /\ (warned # <<>> /\ failures' = failures /\ TargetScopeId(dir, Edges[idx]) # 0) =>
             /\ warned' = warned
             /\ EdgeSatisfied(dir', Edges[idx]) ]_vars

\* C16 witness: app2Name equals app1Name, so that the second spec adopted the
\* first application, which exposes no "api.access": the first and the third
\* edge were skipped with a warning and the second was applied, no call failing
C16_Witness ==
  /\ pc = "web" /\ failures = 0
  /\ warned = <<[by |-> "wire", idx |-> 1], [by |-> "wire", idx |-> 3]>>
  /\ EdgeSatisfied(dir, Edges[2])
  /\ res.errors = <<>>

\* both endpoints of the edge have an outcome in the report
Resolved(e) ==
  /\ FindByUniqueId(res.appRegistrations, e.src) # 0
  /\ FindByUniqueId(res.appRegistrations, e.tgt) # 0

\* C17: edge independence.  In an answered run with cross-permissions
\* enabled and no wiring call failing, every declared edge whose two endpoint
\* applications are in the report, and whose target exposes the scope, is
\* applied, whatever happened to the third application.
C17_EdgeIndependence ==
  (Reported /\ req.enableCrossPermissions /\ ~WiringCallFailed) =>
    \A k \in 1..Len(Edges) :
      (Resolved(Edges[k]) /\ TargetScopeId(dir, Edges[k]) # 0) =>
        EdgeSatisfied(dir, Edges[k])

\* C18: one identity per display name.  Any two outcomes of the current
\* request that carry the same display name carry the same object id and the
\* same application id.
C18_OneIdentityPerName ==
  \A i, j \in 1..Len(AllOutcomes) :
    AllOutcomes[i].displayName = AllOutcomes[j].displayName =>
      /\ AllOutcomes[i].objectId = AllOutcomes[j].objectId
      /\ AllOutcomes[i].appId = AllOutcomes[j].appId

(* ---- claims about the order of the remote calls of a request ---- *)
\* the calls of step 4
Wiring == {i \in 1..Len(calls) : calls[i].by \in {"wire", "web", "myapi"}}
\* the requests for a principal, and the role-assignment attempts
PrincipalCalls == {i \in 1..Len(calls) : calls[i].op = "createSp"}
AssignCalls == {i \in 1..Len(calls) : calls[i].op = "assign"}
\* call j creates the principal of an application that an earlier call of
\* the same step has created
AfterItsApplication(j) ==
  \E i \in 1..(j - 1) :
    /\ calls[i].op = "createApp" /\ calls[i].ok
    /\ calls[i].by = calls[j].by /\ calls[i].obj = calls[j].obj
ApplicationBeforePrincipal == \A j \in PrincipalCalls : AfterItsApplication(j)
PrincipalsBeforeWiring == \A i \in PrincipalCalls : \A j \in Wiring : i < j

\* C19 as claimed: in the calls of a request, every create-principal call
\* follows the successful create-application call for the same application,
\* every create-principal call precedes every call of the wiring, and every
\* call of the wiring precedes every role-assignment attempt.
C19_Ordering ==
  /\ ApplicationBeforePrincipal
  /\ PrincipalsBeforeWiring
  /\ \A i \in Wiring : \A j \in AssignCalls : i < j

\* C19 amended: the role-assignment attempts for an application follow the
\* successful creation of its principal in the same step, and precede every
\* call of the wiring.
C19_OrderingAmended ==
  /\ ApplicationBeforePrincipal
  /\ PrincipalsBeforeWiring
  /\ \A j \in AssignCalls :
       /\ \E i \in PrincipalCalls : i < j /\ calls[i].ok /\ calls[i].by = calls[j].by
       /\ \A k \in Wiring : j < k

\* C19 witness: an answered run that created principals for applications
\* and enterprise applications, attempted role assignments and wrote a
\* declared-permission list in step 4
C19_Witness ==
  /\ Reported
  /\ AssignCalls # {}
  /\ \E i \in PrincipalCalls : calls[i].by = "CHAT_PROXY_APP" /\ calls[i].ok
  /\ \E k \in Wiring : calls[k].op = "patchRra" /\ calls[k].ok

\* the create-principal requests of the step for this enterprise spec
PrincipalAttempts(uid) == {c \in CallsBy(uid) : calls[c].op = "createSp"}

\* C20: principal readiness retry.  When the create-principal call of an
\* enterprise step fails after the step has created the application, the
\* step is reported as failed only after the call was made again at least
\* once.
C20_PrincipalRetried ==
  \A k \in 1..Len(EntUids) :
    (FailedCall(EntUids[k], "createSp") /\ ErrorsOf(EntUids[k]) # {}) =>
      Cardinality(PrincipalAttempts(EntUids[k])) >= 2

(* ---- further claims about grantAdminConsent, checked under SpecConsent ---- *)
\* C21: a role-assignment attempt that failed with an error other than the
\* conflict is made again: the returned call's events hold a later attempt
\* for the same permission of the same resource.
C21_FailedAttemptRetried ==
  ConsentReturned =>
    \A i \in Attempts :
      consent.log[i].res = "error" =>
        \E j \in Attempts :
          /\ j > i
          /\ consent.log[j].r = consent.log[i].r
          /\ consent.log[j].p = consent.log[i].p

\* C22: between any two role-assignment attempts of one call there is a
\* delay.
C22_DelayBetweenAttempts ==
  ConsentReturned =>
    \A i, j \in Attempts :
      i < j => \E k \in (i + 1)..(j - 1) : consent.log[k].ev = "delay"

(* ---- further claims about a run and its wiring ---- *)
\* C23: no step of a request writes the settings of an application the
\* request has adopted: its web and spa platform with their redirect targets
\* and its identifier URIs stay as they are, and no request that writes them
\* is addressed to it.
C23_AdoptedSettingsUntouched ==
  [][ \A i \in 1..Len(AllOutcomes) :
        AllOutcomes[i].isExisting =>
          LET o == AllOutcomes[i].objectId IN
          /\ dir'.apps[o].web = dir.apps[o].web
          /\ dir'.apps[o].spa = dir.apps[o].spa
          /\ dir'.apps[o].identifierUris = dir.apps[o].identifierUris
          /\ \A c \in Gained(calls, calls') :
               ~(calls'[c].op \in {"patchWeb", "patchUri"} /\ calls'[c].obj = o) ]_vars

\* the (target application id, permission id) pairs of the declared-
\* permission list of the application with object id o
Pairs(d, o) ==
  LET rra == d.apps[o].rra
  IN UNION {{<<rra[i].resourceAppId, rra[i].resourceAccess[a].id>> :
               a \in 1..Len(rra[i].resourceAccess)} : i \in 1..Len(rra)}
WiringDone == probe.phase = "wiring" /\ probe.done = Len(Edges)

\* C24: order-insensitivity of the wiring.  Once the three edges have been
\* applied in some order, every application's declared-permission list holds
\* the pairs it would hold had they been applied in any other order.
C24_OrderInsensitive ==
  WiringDone =>
    \A o \in Orders : \A a \in 1..Len(dir.apps) :
      Pairs(dir, a) = Pairs(ApplyEdges(probe.before, res.appRegistrations, o, 1), a)

\* C24 witness: the edges were applied last to first to applications that
\* had none of them, and the third application has gained both of its edges
C24_Witness ==
  /\ WiringDone
  /\ probe.order = [i \in 1..3 |-> 4 - i]
  /\ \A k \in 1..Len(Edges) : ~EdgeSatisfied(probe.before, Edges[k])
  /\ \A k \in 1..Len(Edges) : EdgeExactlyOnce(dir, Edges[k])

(* ---- claim about checkExistingApplication, checked under SpecResolver ---- *)
\* the applications of the tenant that carry exactly the name looked up
Matches == {o \in 1..Len(dir.apps) : dir.apps[o].name = probe.name}
LookupAnswered == probe.phase = "returned" /\ calls[1].ok

\* C25: the resolver's contract.  A returned lookup has issued the lookup
\* request and nothing else; when the request was answered it returns null
\* exactly when no application carries the name and otherwise the first
\* application of the answer that carries it; and when several carry it, a
\* warning has been logged.
C25_ResolverContract ==
  probe.phase = "returned" =>
    /\ Len(calls) = 1 /\ calls[1].op = "findApp"
    /\ LookupAnswered =>
         /\ probe.id = 0 <=> Matches = {}
         /\ probe.id # 0 => probe.id \in Matches /\ \A o \in Matches : probe.id <= o
         /\ Cardinality(Matches) > 1 => probe.warned

(* ---- claims about whole runs ---- *)
\* the handler is serving a request
Busy == pc \notin {"idle", "done"}
\* the most steps the handler has still to take from its position
Rank ==
  CASE pc \in {"idle", "done"} -> 0
    [] pc = "finish" -> 1
    [] pc = "myapi" -> 2
    [] pc = "web" -> 3
    [] pc = "wire" -> 3 + (Len(Edges) + 1 - idx)
    [] pc = "step4" -> 4 + Len(Edges)
    [] pc = "ents" -> 4 + Len(Edges) + (Len(EntUids) + 1 - idx)
    [] pc = "apps" -> 4 + Len(Edges) + Len(EntUids) + (Len(AppUids) + 1 - idx)
    [] pc = "rg" -> 5 + Len(Edges) + Len(EntUids) + Len(AppUids)
    [] OTHER -> 6 + Len(Edges) + Len(EntUids) + Len(AppUids)
\* the requests of this kind that the step `who` has issued
CallsOf(who, op) == {c \in CallsBy(who) : calls[c].op = op}
\* the role permissions an app registration declares at its creation
RolesOf(uid) ==
  LET rra == GetAppPermissionsByUniqueId(uid)
  IN UNION {{<<r, p>> : p \in {q \in 1..Len(rra[r].resourceAccess) :
                                 rra[r].resourceAccess[q].type = "Role"}} :
              r \in 1..Len(rra)}

\* C26: termination.  Every step of a request that is being served brings
\* the handler strictly nearer to its end, so that a request is served in a
\* bounded number of steps; no step repeats a request (a provisioning step
\* issues each kind of request at most once, but for one role-assignment
\* attempt per declared role, and step 4 at most three requests per edge);
\* and exactly one response is sent, at the end.
C26_Terminates ==
  [][ /\ Busy => Rank' < Rank
      /\ Busy => resp.count = 0
      /\ pc' = "done" => resp'.count = 1
      /\ \A uid \in AllUids :
           /\ Cardinality(CallsOf(uid, "assign")') <= Cardinality(RolesOf(uid))
           /\ \A op \in {"findApp", "findSp", "createApp", "patchUri", "addPassword",
                         "createSp", "findResSp"} :
                Cardinality(CallsOf(uid, op)') <= 1
      /\ Cardinality(CallsBy("wire")') <= 3 * Len(Edges) ]_vars

\* C26 witness: the second request was answered after both loops, the
\* role-assignment attempts and the wiring
C26_Witness ==
  /\ Reported /\ run = 2
  /\ AssignCalls # {}
  /\ \E k \in Wiring : calls[k].op = "patchRra"

(* ---- claims about addApplicationPermission and the declared permissions ---- *)
\* the (target application id, permission id, type) triples of the declared-
\* permission list of the application with object id o
Triples(d, o) ==
  LET rra == d.apps[o].rra
  IN UNION {{<<rra[i].resourceAppId, rra[i].resourceAccess[a].id,
                rra[i].resourceAccess[a].type>> :
               a \in 1..Len(rra[i].resourceAccess)} : i \in 1..Len(rra)}

\* C27: the wiring only appends.  An addApplicationPermission call keeps
\* every triple of every application's declared-permission list, adds at
\* most one triple, a scope of the edge's target on the edge's source, and
\* keeps the entries that were there in their places.
C27_WiringOnlyAppends ==
  [][ pc = "wire" =>
        LET src == Outcome(Edges[idx].src).objectId IN
        /\ \A o \in 1..Len(dir.apps) :
             /\ Triples(dir, o) \subseteq Triples(dir', o)
             /\ o # src => dir'.apps[o].rra = dir.apps[o].rra
        /\ Cardinality(Triples(dir', src) \ Triples(dir, src)) <= 1
        /\ \A t \in Triples(dir', src) \ Triples(dir, src) :
             t[1] = Outcome(Edges[idx].tgt).appId /\ t[3] = "Scope"
        /\ \A i \in 1..Len(dir.apps[src].rra) :
             dir'.apps[src].rra[i].resourceAppId = dir.apps[src].rra[i].resourceAppId ]_vars

\* C27 witness: the connector application has its Microsoft Graph roles and
\* the scope of the API application that the wiring added to them
C27_Witness ==
  /\ pc = "wire" /\ idx = 2
  /\ LET o == Outcome("MAHI_CONNECTOR_APP").objectId IN
     /\ \A k \in 1..NumGraphRoles : <<GraphAppId, Role(k).id, "Role">> \in Triples(dir, o)
     /\ EdgeExactlyOnce(dir, Edges[1])

\* the ids of the scopes that the application with application id appId exposes
ExposedScopeIds(d, appId) ==
  LET t == AppByAppId(d, appId)
  IN IF t = 0 THEN {} ELSE {d.apps[t].scopes[k].id : k \in 1..Len(d.apps[t].scopes)}

\* the (source, target, permission id) of the scope permissions that the
\* applications of this run's report declare on one another
DeclaredScopes(d) ==
  UNION {{t \in Triples(d, Outcome(AppUids[a]).objectId) :
            /\ t[3] = "Scope"
            /\ \E b \in 1..3 : Outcome(AppUids[b]).appId = t[1]} : a \in 1..3}

\* C28: after cross-permission configuration every scope id that a source
\* application declares for one of the provisioned applications is the id of
\* a scope that this target exposes.
C28_ScopeIdsKnownToTarget ==
  (pc \in {"finish", "done"} /\ Len(res.appRegistrations) = 3) =>
    \A t \in DeclaredScopes(dir) : t[2] \in ExposedScopeIds(dir, t[1])

(* ---- claims about repeated runs over one directory ---- *)
\* no two applications of the directory carry the same display name
NamesDistinct(d) ==
  \A i, j \in 1..Len(d.apps) : d.apps[i].name = d.apps[j].name => i = j

\* C29: at most one application per display name.  Every application that a
\* step creates carries a display name that no application of the directory
\* carried before the step, also when a lookup by name fails, and so the
\* display names of the directory stay distinct.
C29_OneApplicationPerName ==
  [][ /\ \A o \in (Len(dir.apps) + 1)..Len(dir'.apps) :
           \A p \in 1..Len(dir.apps) : dir.apps[p].name # dir'.apps[o].name
      /\ NamesDistinct(dir') ]_vars

\* the request gives its five resources five different display names
NamesApart == \A u, v \in AllUids : req.names[u] = req.names[v] => u = v
\* no remote call of the current run has failed
CleanRun == \A i \in 1..Len(calls) : calls[i].ok
\* every application of the report has its principal in the directory, and
\* the API-provider application has its identifier URI
Complete(d) ==
  \A i \in 1..Len(res.appRegistrations) :
    LET a == res.appRegistrations[i] IN
    /\ SpByAppId(d, a.appId) # 0
    /\ a.uniqueId = "MAHI_API_ACCESS" => d.apps[a.objectId].identifierUris # <<>>

\* C30: convergence of repeated runs.  A later run with the same specs in
\* which no remote call fails completes what an earlier run left missing:
\* when it has reported, every application has its principal and the
\* API-provider application has its identifier URI.
C30_LaterRunCompletes ==
  (prev.ran /\ Reported /\ CleanRun /\ NamesApart) =>
    /\ Len(res.appRegistrations) = 3
    /\ Complete(dir)

====
